---- MODULE Spec2Model ----
(***************************************************************************)
(* A model of python_ast_extractor.py: the command-line entry point main,  *)
(* PythonASTExtractor (the declaration visitor) and                        *)
(* CyclomaticComplexityCalculator.                                         *)
(*                                                                         *)
(* The input file is modelled by its syntax tree, the value ast.parse      *)
(* returns.  Statements (and exception handlers) are the entries of a      *)
(* table, `tree`, numbered in source order; entry i carries the number of  *)
(* its parent (0 is the Module), the field of the parent it sits in and    *)
(* its own line, lineno.  Expressions are nested records held by the       *)
(* statement they belong to.  `pass`-like statements, which have no fields *)
(* and on which both visitors do nothing, are left out of the table.       *)
(***************************************************************************)
EXTENDS Integers, Sequences, FiniteSets, TLC

VARIABLES argv, file, hasUnparse, pc, exc, stack, current_class, nodes,
          imports, relationships, result, stdout, exitStatus

vars == <<argv, file, hasUnparse, pc, exc, stack, current_class, nodes,
          imports, relationships, result, stdout, exitStatus>>

(***************************************************************************)
(* Bounds of the checked input families.                                   *)
(***************************************************************************)
MaxNodes == 3
MaxImports == 2
MaxCx == 2
MaxArgs == 2
MaxBases == 2
MaxPathLen == 3

\* Python's None where a string is expected.  'None' is a keyword, so no
\* identifier, module path or alias of a parsed file is this string.
NoneStr == "None"

Truthy(s) == s # NoneStr /\ s # ""

Digit == <<"1", "2", "3", "4", "5", "6", "7", "8", "9">>

Max(a, b) == IF a >= b THEN a ELSE b

RECURSIVE SumSeq(_)
SumSeq(s) == IF s = <<>> THEN 0 ELSE Head(s) + SumSeq(Tail(s))

RECURSIVE Flatten(_)
Flatten(ss) == IF ss = <<>> THEN <<>> ELSE Head(ss) \o Flatten(Tail(ss))

SeqsUpTo(S, n) == UNION {[1..k -> S] : k \in 0..n}

(***************************************************************************)
(* Expressions.                                                            *)
(***************************************************************************)
Name(id) == [kind |-> "Name", id |-> id]
Attribute(value, attr) == [kind |-> "Attribute", value |-> value, attr |-> attr]
Constant(value) == [kind |-> "Constant", value |-> value]
BoolOp(values) == [kind |-> "BoolOp", values |-> values]
\* A comprehension of the given kind (ListComp, SetComp, DictComp,
\* GeneratorExp); generators is one sequence of filter conditions per clause.
Comp(kind, elt, generators) == [kind |-> kind, elt |-> elt, generators |-> generators]
\* Any other expression (a call, a subscript, a conditional expression ...):
\* text is its source text, operands its sub-expressions.
Other(kind, text, operands) == [kind |-> kind, text |-> text, operands |-> operands]

CompKinds == {"ListComp", "SetComp", "DictComp", "GeneratorExp"}

\* ast.iter_child_nodes restricted to expressions
ExprChildren(e) ==
    CASE e.kind = "Attribute" -> <<e.value>>
      [] e.kind = "BoolOp" -> e.values
      [] e.kind \in CompKinds -> <<e.elt>> \o Flatten(e.generators)
      [] e.kind \in {"Name", "Constant"} -> <<>>
      [] OTHER -> e.operands

(***************************************************************************)
(* The syntax tree.  A node of the table is a record with the fields below *)
(* (those a kind does not have keep their empty value); an optional child  *)
(* (an annotation, vararg, kwarg, returns) is a sequence of length 0 or 1. *)
(***************************************************************************)
NoArgs == [posonlyargs |-> <<>>, args |-> <<>>, vararg |-> <<>>,
           kwonlyargs |-> <<>>, kw_defaults |-> <<>>, kwarg |-> <<>>,
           defaults |-> <<>>]

Arg(name, annotation) == [arg |-> name, annotation |-> annotation]

Alias(name, asname) == [name |-> name, asname |-> asname]

BlankNode == [kind |-> "Pass", parent |-> 0, field |-> "body", lineno |-> 0,
              name |-> "", bases |-> <<>>, decorator_list |-> <<>>,
              args |-> NoArgs, returns |-> <<>>, exprs |-> <<>>,
              names |-> <<>>, module |-> NoneStr]

CallableKinds == {"FunctionDef", "AsyncFunctionDef"}

KindOf(t, i) == IF i = 0 THEN "Module" ELSE t[i].kind

\* The fields of a node that hold statements or handlers, in the order of
\* the node class's _fields (the order generic_visit walks them in).
StmtFields(kind) ==
    CASE kind \in {"Module", "ClassDef", "FunctionDef", "AsyncFunctionDef",
                   "With", "AsyncWith", "ExceptHandler"} -> <<"body">>
      [] kind \in {"If", "For", "AsyncFor", "While"} -> <<"body", "orelse">>
      [] kind = "Try" -> <<"body", "handlers", "orelse", "finalbody">>
      [] OTHER -> <<>>

Ids(t) == [k \in 1..Len(t) |-> k]

InField(t, i, f) == SelectSeq(Ids(t), LAMBDA j : t[j].parent = i /\ t[j].field = f)

\* The statements and handlers directly under node i, in generic_visit's order.
Children(t, i) ==
    LET fs == StmtFields(KindOf(t, i))
    IN  Flatten([k \in 1..Len(fs) |-> InField(t, i, fs[k])])

RECURSIVE Ancestors(_, _)
Ancestors(t, i) ==
    IF i = 0 THEN {} ELSE {t[i].parent} \cup Ancestors(t, t[i].parent)

\* The expressions a statement holds itself (not those of its sub-statements).
ArgsExprs(a) ==
    Flatten([k \in 1..Len(a.posonlyargs) |-> a.posonlyargs[k].annotation])
    \o Flatten([k \in 1..Len(a.args) |-> a.args[k].annotation])
    \o Flatten([k \in 1..Len(a.vararg) |-> a.vararg[k].annotation])
    \o Flatten([k \in 1..Len(a.kwonlyargs) |-> a.kwonlyargs[k].annotation])
    \o a.kw_defaults
    \o Flatten([k \in 1..Len(a.kwarg) |-> a.kwarg[k].annotation])
    \o a.defaults

OwnExprs(n) ==
    CASE n.kind \in CallableKinds ->
            ArgsExprs(n.args) \o n.decorator_list \o n.returns
      [] n.kind = "ClassDef" -> n.bases \o n.decorator_list
      [] OTHER -> n.exprs

(***************************************************************************)
(* CyclomaticComplexityCalculator.  Each visit_X adds its increment and    *)
(* then calls generic_visit, which visits every child node; a node class   *)
(* without a visit_X goes to generic_visit directly.                       *)
(***************************************************************************)
\* for generator in node.generators: if generator.ifs: += len(generator.ifs)
visit_Comp(e) ==
    SumSeq([k \in 1..Len(e.generators) |->
              IF e.generators[k] # <<>> THEN Len(e.generators[k]) ELSE 0])

visit_BoolOp(e) == Len(e.values) - 1

ExprIncrement(e) ==
    CASE e.kind = "BoolOp" -> visit_BoolOp(e)
      [] e.kind \in CompKinds -> visit_Comp(e)
      [] OTHER -> 0

RECURSIVE CalcVisitExpr(_)
CalcVisitExpr(e) ==
    LET ch == ExprChildren(e)
    IN  ExprIncrement(e) + SumSeq([k \in 1..Len(ch) |-> CalcVisitExpr(ch[k])])

StmtIncrement(kind) ==
    IF kind \in {"If", "While", "For", "ExceptHandler", "With", "AsyncWith",
                 "AsyncFor"}
    THEN 1 ELSE 0

RECURSIVE CalcVisit(_, _)
CalcVisit(t, i) ==
    LET es == OwnExprs(t[i])
        ch == Children(t, i)
    IN  StmtIncrement(t[i].kind)
        + SumSeq([k \in 1..Len(es) |-> CalcVisitExpr(es[k])])
        + SumSeq([k \in 1..Len(ch) |-> CalcVisit(t, ch[k])])

\* complexity_calc = CyclomaticComplexityCalculator(); complexity_calc.visit(node)
Complexity(t, i) == 1 + CalcVisit(t, i)

(***************************************************************************)
(* The label of an annotation, a decorator or a base class.  unparse says  *)
(* whether the interpreter has ast.unparse.                                *)
(***************************************************************************)
RECURSIVE _get_annotation(_, _)
_get_annotation(e, unparse) ==
    CASE e.kind = "Name" -> e.id
      [] e.kind = "Constant" -> e.value
      [] e.kind = "Attribute" -> _get_annotation(e.value, unparse) \o "." \o e.attr
      [] OTHER -> IF unparse THEN e.text ELSE ""

RECURSIVE _get_name_from_node(_, _)
_get_name_from_node(e, unparse) ==
    CASE e.kind = "Name" -> e.id
      [] e.kind = "Attribute" -> _get_name_from_node(e.value, unparse) \o "." \o e.attr
      [] e.kind = "Constant" -> e.value
      [] OTHER -> IF unparse THEN e.text ELSE ""

\* self._get_annotation(x.annotation) if x.annotation else ""
AnnotationOf(opt, unparse) ==
    IF opt = <<>> THEN "" ELSE _get_annotation(opt[1], unparse)

RECURSIVE MaxOf(_)
MaxOf(s) == IF s = <<>> THEN 0 ELSE Max(Head(s), MaxOf(Tail(s)))

\* max(child.lineno for child in ast.walk(node))
RECURSIVE MaxLine(_, _)
MaxLine(t, i) ==
    LET ch == Children(t, i)
    IN  Max(t[i].lineno, MaxOf([k \in 1..Len(ch) |-> MaxLine(t, ch[k])]))

\* The modelled statements take one line each, so node.end_lineno is the
\* largest lineno under the node, which is also what the fallback computes.
_get_end_line(t, i) == MaxLine(t, i)

(***************************************************************************)
(* The input files.  Trees are built node by node in source order: a new   *)
(* statement goes under the last statement or one of its ancestors, in a   *)
(* field not before the one that ancestor's last child sits in, and takes  *)
(* the next line.  Only an ExceptHandler sits in a Try's handlers.         *)
(***************************************************************************)
Rank(kind, f) == CHOOSE k \in 1..Len(StmtFields(kind)) : StmtFields(kind)[k] = f

LastRank(t, p) ==
    LET ch == Children(t, p)
    IN  IF ch = <<>> THEN 1 ELSE Rank(KindOf(t, p), t[ch[Len(ch)]].field)

RightPath(t) == IF t = <<>> THEN {0} ELSE {Len(t)} \cup Ancestors(t, Len(t))

Places(t, v, top) ==
    {pf \in UNION {{<<p, StmtFields(KindOf(t, p))[k]>> :
                      k \in 1..Len(StmtFields(KindOf(t, p)))} :
                   p \in RightPath(t) \ (IF top THEN {} ELSE {0})} :
        /\ (pf[2] = "handlers") <=> (v.kind = "ExceptHandler")
        /\ Rank(KindOf(t, pf[1]), pf[2]) >= LastRank(t, pf[1])}

\* Declarations are named after their line: C3 is the class on line 3.
Placed(t, v, pf) ==
    [v EXCEPT !.parent = pf[1], !.field = pf[2], !.lineno = Len(t) + 1,
              !.name = IF v.name = "" THEN "" ELSE v.name \o Digit[Len(t) + 1]]

Extend(t, V, top) ==
    UNION {{Append(t, Placed(t, v, pf)) : pf \in Places(t, v, top)} : v \in V}

\* The seeds grown by at most n statements drawn from V (under the seed's
\* statements only, unless top).
RECURSIVE Grow(_, _, _, _)
Grow(seeds, V, n, top) ==
    IF n = 0 THEN seeds
    ELSE seeds \cup Grow(UNION {Extend(t, V, top) : t \in seeds}, V, n - 1, top)

Stmt(kind) == [BlankNode EXCEPT !.kind = kind]
Decl(kind, prefix) == [BlankNode EXCEPT !.kind = kind, !.name = prefix]
ExprStmt(e) == [BlankNode EXCEPT !.kind = "Expr", !.exprs = <<e>>]
ImportStmt(names) == [BlankNode EXCEPT !.kind = "Import", !.names = names]
ImportFromStmt(module, names) ==
    [BlankNode EXCEPT !.kind = "ImportFrom", !.module = module, !.names = names]

\* Declarations, a plain block and an import, nested in every way.
WalkVariants ==
    {Decl("ClassDef", "C"), Decl("FunctionDef", "f"),
     Decl("AsyncFunctionDef", "f"), Stmt("If"),
     ImportStmt(<<Alias("os", NoneStr)>>)}

WalkTrees == Grow({<<>>}, WalkVariants, MaxNodes, TRUE)

\* Import statements of every form, at top level, in a class or in a function.
ImportVariants ==
    {ImportStmt(<<Alias("sqlite3", NoneStr)>>),
     ImportStmt(<<Alias("os.path", "p")>>),
     ImportStmt(<<Alias("x", NoneStr), Alias("y", "z")>>),
     ImportFromStmt("typing", <<Alias("Optional", NoneStr), Alias("Dict", NoneStr)>>),
     ImportFromStmt("a.b", <<Alias("c", "d")>>),
     ImportFromStmt(NoneStr, <<Alias("sib", NoneStr), Alias("x", "y")>>),
     Decl("ClassDef", "C"), Decl("FunctionDef", "f")}

ImportTrees == Grow({<<>>}, ImportVariants, MaxImports, TRUE) \ {<<>>}

\* One function and, inside it, the constructs the calculator knows and
\* some it does not.
A == Name("a")
B == Name("b")

CxExprs ==
    {BoolOp(<<A, B, A>>),
     Comp("ListComp", A, <<<<B>>>>),
     Comp("SetComp", A, <<<<>>>>),
     Comp("DictComp", A, <<<<A>>, <<A, B>>>>),
     Comp("GeneratorExp", A, <<<<BoolOp(<<A, B>>)>>>>),
     Other("IfExp", "a if b else a", <<A, B, A>>),
     Other("Lambda", "lambda: a or b", <<BoolOp(<<A, B>>)>>)}

\* every construct, and the few that nest
CxVariants ==
    {Stmt(k) : k \in {"If", "For", "While", "AsyncFor", "With", "AsyncWith",
                      "Try", "ExceptHandler", "Match"}}
    \cup {[Stmt("If") EXCEPT !.exprs = <<BoolOp(<<A, B>>)>>]}
    \cup {Decl("FunctionDef", "g"), Decl("AsyncFunctionDef", "g")}
    \cup {ExprStmt(e) : e \in CxExprs}

CxNesting ==
    {Stmt("If"), Stmt("For"), Stmt("Try"), Stmt("ExceptHandler"),
     [Stmt("While") EXCEPT !.exprs = <<BoolOp(<<A, B>>)>>],
     Decl("FunctionDef", "g"), ExprStmt(BoolOp(<<A, B, A>>))}

CxSeeds ==
    {<<Placed(<<>>, d, <<0, "body">>)>> :
        d \in {Decl("FunctionDef", "f"),
               [Decl("FunctionDef", "f") EXCEPT
                   !.decorator_list = <<Other("Call", "retry(a or b)", <<BoolOp(<<A, B>>)>>)>>],
               [Decl("AsyncFunctionDef", "f") EXCEPT
                   !.args = [NoArgs EXCEPT !.args = <<Arg("x", <<>>)>>,
                                           !.defaults = <<BoolOp(<<A, B>>)>>]]}}

\* the nesting constructs to depth MaxCx, and every construct alone in the
\* function or after one nesting construct
CxTrees ==
    Grow(CxSeeds, CxNesting, MaxCx, FALSE)
    \cup UNION {Extend(t, CxVariants, FALSE) : t \in Grow(CxSeeds, CxNesting, 1, FALSE)}

\* One function, its signature varied.
AnnChoices ==
    {<<>>, <<Name("int")>>, <<Attribute(Name("t"), "List")>>,
     <<Other("Subscript", "Dict[str, int]", <<Name("Dict")>>)>>}

ArgsSet ==
    {[posonlyargs |-> po, args |-> [k \in 1..Len(an) |-> Arg("a" \o Digit[k], an[k])],
      vararg |-> va, kwonlyargs |-> ko,
      kw_defaults |-> [k \in 1..Len(ko) |-> Constant("0")],
      kwarg |-> kw, defaults |-> <<>>] :
        po \in {<<>>, <<Arg("p", <<>>)>>},
        an \in SeqsUpTo(AnnChoices, MaxArgs),
        va \in {<<>>, <<Arg("args", <<>>)>>, <<Arg("args", <<Name("int")>>)>>},
        ko \in {<<>>, <<Arg("k", <<Name("str")>>)>>},
        kw \in {<<>>, <<Arg("kwargs", <<>>)>>}}

ParamTrees ==
    {<<Placed(<<>>, [Decl("FunctionDef", "f") EXCEPT !.args = a, !.returns = r],
              <<0, "body">>)>> :
        a \in ArgsSet, r \in {<<>>, <<Constant("None")>>}}

\* One decorated class with base classes, holding one decorated method.
LabelExprs ==
    {Name("Base"), Attribute(Name("abc"), "ABC"),
     Attribute(Other("Call", "pkg()", <<Name("pkg")>>), "Mixin"),
     Other("Subscript", "Generic[T]", <<Name("Generic"), Name("T")>>)}

LabelTrees ==
    {LET c == Placed(<<>>, [Decl("ClassDef", "C") EXCEPT !.bases = bs,
                                                      !.decorator_list = ds],
                     <<0, "body">>)
     IN  <<c, Placed(<<c>>, [Decl("FunctionDef", "f") EXCEPT !.decorator_list = ds],
                     <<1, "body">>)>> :
        bs \in SeqsUpTo(LabelExprs, MaxBases), ds \in SeqsUpTo(LabelExprs, 1)}

\* testdata/calculator.py
CalculatorTree ==
    LET def(name, line, parent, args) ==
            [BlankNode EXCEPT !.kind = "FunctionDef", !.name = name,
                              !.lineno = line, !.parent = parent,
                              !.args = [NoArgs EXCEPT !.args =
                                  [k \in 1..Len(args) |-> Arg(args[k], <<>>)]]]
        st(kind, line, parent) ==
            [BlankNode EXCEPT !.kind = kind, !.lineno = line, !.parent = parent]
    IN  << [BlankNode EXCEPT !.kind = "ClassDef", !.name = "Calculator", !.lineno = 1],
           def("__init__", 2, 1, <<"self">>),
           def("add", 5, 1, <<"self", "x">>),
           st("If", 6, 3),
           def("multiply", 12, 1, <<"self", "x", "y">>),
           st("For", 14, 5),
           st("If", 15, 6),
           def("main", 20, 0, <<>>),
           st("If", 27, 0) >>

(***************************************************************************)
(* Paths are sequences of characters.                                      *)
(***************************************************************************)
PathChars == {"/", ".", "m"}
Paths == SeqsUpTo(PathChars, MaxPathLen)

Prog == <<"x">>
DefaultPath == <<"s", "/", "m", ".", "p", "y">>

\* p.rfind(c), counting positions from 1 (0: not found)
RFind(p, c) ==
    IF \E k \in 1..Len(p) : p[k] = c
    THEN CHOOSE k \in 1..Len(p) : p[k] = c /\ \A j \in (k + 1)..Len(p) : p[j] # c
    ELSE 0

\* os.path.basename: i = p.rfind('/') + 1; return p[i:]
basename(p) == SubSeq(p, RFind(p, "/") + 1, Len(p))

\* os.path.splitext(p)[0]: the part before the last dot, if that dot comes
\* after the last separator and after a character that is not a dot
splitext_root(p) ==
    LET sepIndex == RFind(p, "/")
        dotIndex == RFind(p, ".")
    IN  IF /\ dotIndex > sepIndex
           /\ \E k \in (sepIndex + 1)..(dotIndex - 1) : p[k] # "."
        THEN SubSeq(p, 1, dotIndex - 1)
        ELSE p

\* the extension is kept
_get_module_name_WithExt(file_path) == basename(file_path)

_get_module_name(file_path) == splitext_root(basename(file_path))

\* open(file_path) fails on the empty path and on a directory
Openable(p) ==
    /\ p # <<>>
    /\ p[Len(p)] # "/"
    /\ basename(p) \notin {<<".">>, <<".", ".">>}

(***************************************************************************)
(* The program.  pc is main's position:                                    *)
(*   main    before the argument check                                     *)
(*   parse   file read, extractor constructed, in extract before ast.parse *)
(*   visit   in self.visit(tree); stack holds the generic_visit calls in   *)
(*           progress, each with the children it has still to visit        *)
(*   print   extract has returned result                                   *)
(*   except  an exception is on its way to main's handler                  *)
(*   exited  the process has ended with exitStatus                         *)
(* exc is the last exception raised.                                       *)
(***************************************************************************)
EmptyResult ==
    [module |-> <<>>, nodes |-> <<>>, imports |-> <<>>, relationships |-> <<>>]

Inputs ==
    {[argv |-> <<Prog, DefaultPath>>,
      file |-> [readable |-> TRUE, parse |-> "ok", tree |-> t], unparse |-> TRUE] :
        t \in WalkTrees \cup ImportTrees \cup CxTrees}
    \cup
    {[argv |-> <<Prog, DefaultPath>>,
      file |-> [readable |-> TRUE, parse |-> "ok", tree |-> t], unparse |-> u] :
        t \in ParamTrees \cup LabelTrees, u \in BOOLEAN}
    \cup
    {[argv |-> a, file |-> [readable |-> r, parse |-> o, tree |-> CalculatorTree],
      unparse |-> TRUE] :
        a \in {<<Prog>>, <<Prog, DefaultPath, DefaultPath>>}
              \cup {<<Prog, q>> : q \in Paths},
        r \in BOOLEAN, o \in {"ok", "SyntaxError", "ValueError"}}

Init ==
    /\ \E in \in Inputs :
          /\ Len(in.argv) = 2 /\ in.file.readable => Openable(in.argv[2])
          /\ argv = in.argv
          /\ file = in.file
          /\ hasUnparse = in.unparse
    /\ pc = "main"
    /\ exc = NoneStr
    /\ stack = <<>>
    /\ current_class = NoneStr
    /\ nodes = <<>>
    /\ imports = <<>>
    /\ relationships = <<>>
    /\ result = <<>>
    /\ stdout = <<>>
    /\ exitStatus = -1

file_path == argv[2]
tree == file.tree

walk == <<stack, current_class, nodes, imports, relationships>>

\* if len(sys.argv) != 2: print the empty document; sys.exit(1)
UsageError ==
    /\ pc = "main"
    /\ Len(argv) # 2
    /\ stdout' = Append(stdout, EmptyResult)
    /\ exitStatus' = 1
    /\ pc' = "exited"
    /\ UNCHANGED <<argv, file, hasUnparse, exc, walk, result>>

\* f.read() succeeds; PythonASTExtractor(source_code, file_path)
ReadFile ==
    /\ pc = "main"
    /\ Len(argv) = 2
    /\ file.readable
    /\ pc' = "parse"
    /\ UNCHANGED <<argv, file, hasUnparse, exc, walk, result, stdout, exitStatus>>

\* open or read raises (OSError, UnicodeDecodeError)
ReadFileFails ==
    /\ pc = "main"
    /\ Len(argv) = 2
    /\ ~file.readable
    /\ exc' = "OSError"
    /\ pc' = "except"
    /\ UNCHANGED <<argv, file, hasUnparse, walk, result, stdout, exitStatus>>

Frame(node, todo, prev, isClass) ==
    [node |-> node, todo |-> todo, prev |-> prev, isClass |-> isClass]

\* tree = ast.parse(...); self.visit(tree) enters generic_visit(Module)
Parse ==
    /\ pc = "parse"
    /\ file.parse = "ok"
    /\ stack' = <<Frame(0, Children(tree, 0), NoneStr, FALSE)>>
    /\ pc' = "visit"
    /\ UNCHANGED <<argv, file, hasUnparse, exc, current_class, nodes, imports,
                   relationships, result, stdout, exitStatus>>

\* ast.parse raises SyntaxError; extract returns the empty result
ParseSyntaxError ==
    /\ pc = "parse"
    /\ file.parse = "SyntaxError"
    /\ exc' = "SyntaxError"
    /\ result' = <<[module |-> _get_module_name(file_path), nodes |-> <<>>,
                    imports |-> <<>>, relationships |-> <<>>]>>
    /\ pc' = "print"
    /\ UNCHANGED <<argv, file, hasUnparse, walk, stdout, exitStatus>>

\* ast.parse raises something else (ValueError on a null byte, RecursionError,
\* MemoryError), which extract does not catch
ParseFails ==
    /\ pc = "parse"
    /\ file.parse \notin {"ok", "SyntaxError"}
    /\ exc' = file.parse
    /\ pc' = "except"
    /\ UNCHANGED <<argv, file, hasUnparse, walk, result, stdout, exitStatus>>

Top == stack[Len(stack)]
Visiting == pc = "visit" /\ stack # <<>> /\ Top.todo # <<>>
child == Head(Top.todo)

\* the stack once the current child has been taken from the top frame
Advanced == [stack EXCEPT ![Len(stack)].todo = Tail(Top.todo)]

Enter(frames, todo, prev, isClass, node) ==
    IF todo = <<>> /\ ~isClass THEN frames
    ELSE Append(frames, Frame(node, todo, prev, isClass))

PythonASTNode(node_type, name, start_line, end_line) ==
    [type |-> node_type, name |-> name, start_line |-> start_line,
     end_line |-> end_line, parameter_count |-> 0, return_count |-> 0,
     parameters |-> <<>>, return_values |-> <<>>, cyclomatic_complexity |-> 1,
     parent |-> "", decorators |-> <<>>, base_classes |-> <<>>]

_node_to_dict(node) ==
    [type |-> node.type, name |-> node.name, start_line |-> node.start_line,
     end_line |-> node.end_line, parameter_count |-> node.parameter_count,
     return_count |-> node.return_count, parameters |-> node.parameters,
     return_values |-> node.return_values,
     cyclomatic_complexity |-> node.cyclomatic_complexity,
     parent |-> node.parent, decorators |-> node.decorators,
     base_classes |-> node.base_classes]

Labels(es) == [k \in 1..Len(es) |-> _get_name_from_node(es[k], hasUnparse)]

\* the class body is not visited
ClassBody_Skipped(t, i) == <<>>

\* what generic_visit(node) of visit_ClassDef goes through
ClassBody(t, i) == Children(t, i)

\* the class context is cleared instead of restored
RestoredClass_Cleared(frame) == NoneStr

\* self.current_class = previous_class
RestoredClass(frame) == frame.prev

visit_ClassDef ==
    /\ Visiting
    /\ tree[child].kind = "ClassDef"
    /\ LET node == tree[child]
           class_node ==
               [PythonASTNode("class", node.name, node.lineno, _get_end_line(tree, child))
                   EXCEPT !.base_classes = Labels(node.bases),
                          !.decorators = Labels(node.decorator_list)]
       IN  /\ nodes' = Append(nodes, class_node)
           /\ current_class' = node.name
           /\ stack' = Enter(Advanced, ClassBody(tree, child), current_class, TRUE, child)
    /\ UNCHANGED <<argv, file, hasUnparse, pc, exc, imports, relationships,
                   result, stdout, exitStatus>>

\* generic_visit has gone through all children of a node and returns; after
\* the one of visit_ClassDef the previous class context is restored
Return ==
    /\ pc = "visit"
    /\ stack # <<>>
    /\ Top.todo = <<>>
    /\ stack' = SubSeq(stack, 1, Len(stack) - 1)
    /\ current_class' = IF Top.isClass THEN RestoredClass(Top) ELSE current_class
    /\ UNCHANGED <<argv, file, hasUnparse, pc, exc, nodes, imports,
                   relationships, result, stdout, exitStatus>>

\* the parameters visit_FunctionDef collects
Parameters(args) ==
    [k \in 1..Len(args.args) |->
        [name |-> args.args[k].arg,
         type |-> AnnotationOf(args.args[k].annotation, hasUnparse)]]
    \o [k \in 1..Len(args.vararg) |->
        [name |-> "*" \o args.vararg[k].arg,
         type |-> AnnotationOf(args.vararg[k].annotation, hasUnparse)]]
    \o [k \in 1..Len(args.kwarg) |->
        [name |-> "**" \o args.kwarg[k].arg,
         type |-> AnnotationOf(args.kwarg[k].annotation, hasUnparse)]]

\* the function body is visited like a class body
FunctionBody_Visited(t, i) == Children(t, i)

\* what visit_FunctionDef visits of the function after recording it: nothing
\* (its self.generic_visit(node) is commented out)
FunctionBody(t, i) == <<>>

FunctionNode(i) ==
    LET node == tree[i]
        parameters == Parameters(node.args)
    IN  [PythonASTNode(IF Truthy(current_class) THEN "method" ELSE "function",
                       node.name, node.lineno, _get_end_line(tree, i))
            EXCEPT !.parent = IF Truthy(current_class) THEN current_class ELSE "",
                   !.parameters = parameters,
                   !.parameter_count = Len(parameters),
                   !.return_values =
                       [k \in 1..Len(node.returns) |->
                           [name |-> "", type |-> _get_annotation(node.returns[k], hasUnparse)]],
                   !.return_count = Len(node.returns),
                   !.cyclomatic_complexity = Complexity(tree, i),
                   !.decorators = Labels(node.decorator_list)]

visit_FunctionDef ==
    /\ Visiting
    /\ tree[child].kind = "FunctionDef"
    /\ nodes' = Append(nodes, FunctionNode(child))
    /\ stack' = Enter(Advanced, FunctionBody(tree, child), NoneStr, FALSE, child)
    /\ UNCHANGED <<argv, file, hasUnparse, pc, exc, current_class, imports,
                   relationships, result, stdout, exitStatus>>

\* self.visit_FunctionDef(node)
visit_AsyncFunctionDef ==
    /\ Visiting
    /\ tree[child].kind = "AsyncFunctionDef"
    /\ nodes' = Append(nodes, FunctionNode(child))
    /\ stack' = Enter(Advanced, FunctionBody(tree, child), NoneStr, FALSE, child)
    /\ UNCHANGED <<argv, file, hasUnparse, pc, exc, current_class, imports,
                   relationships, result, stdout, exitStatus>>

ImportInfo(module, alias, lineno) ==
    [module |-> module,
     name |-> IF Truthy(alias.asname) THEN alias.asname ELSE alias.name,
     alias |-> IF Truthy(alias.asname) THEN alias.asname ELSE "",
     line |-> lineno]

visit_Import ==
    /\ Visiting
    /\ tree[child].kind = "Import"
    /\ LET node == tree[child]
       IN  imports' = imports \o
               [k \in 1..Len(node.names) |->
                   ImportInfo(node.names[k].name, node.names[k], node.lineno)]
    /\ stack' = Advanced
    /\ UNCHANGED <<argv, file, hasUnparse, pc, exc, current_class, nodes,
                   relationships, result, stdout, exitStatus>>

\* the module path is joined without the test for an empty one
FromModule_Unconditional(module, name) == module \o "." \o name

\* f"{module}.{alias.name}" if module else alias.name
FromModule(module, name) == IF module # "" THEN module \o "." \o name ELSE name

visit_ImportFrom ==
    /\ Visiting
    /\ tree[child].kind = "ImportFrom"
    /\ LET node == tree[child]
           module == IF Truthy(node.module) THEN node.module ELSE ""
       IN  imports' = imports \o
               [k \in 1..Len(node.names) |->
                   ImportInfo(FromModule(module, node.names[k].name),
                              node.names[k], node.lineno)]
    /\ stack' = Advanced
    /\ UNCHANGED <<argv, file, hasUnparse, pc, exc, current_class, nodes,
                   relationships, result, stdout, exitStatus>>

\* a statement the extractor has no visit_X for
generic_visit ==
    /\ Visiting
    /\ tree[child].kind \notin
           {"ClassDef", "FunctionDef", "AsyncFunctionDef", "Import", "ImportFrom"}
    /\ stack' = Enter(Advanced, Children(tree, child), NoneStr, FALSE, child)
    /\ UNCHANGED <<argv, file, hasUnparse, pc, exc, current_class, nodes,
                   imports, relationships, result, stdout, exitStatus>>

\* an exception during the traversal (RecursionError, MemoryError)
VisitFails ==
    /\ pc = "visit"
    /\ exc' = "RecursionError"
    /\ pc' = "except"
    /\ UNCHANGED <<argv, file, hasUnparse, walk, result, stdout, exitStatus>>

\* self.visit(tree) has returned; extract builds and returns the result
extract_return ==
    /\ pc = "visit"
    /\ stack = <<>>
    /\ result' = <<[module |-> _get_module_name(file_path),
                    nodes |-> [k \in 1..Len(nodes) |-> _node_to_dict(nodes[k])],
                    imports |-> imports,
                    relationships |-> relationships]>>
    /\ pc' = "print"
    /\ UNCHANGED <<argv, file, hasUnparse, exc, walk, stdout, exitStatus>>

\* print(json.dumps(result, ...)); main returns
PrintResult ==
    /\ pc = "print"
    /\ stdout' = Append(stdout, result[1])
    /\ exitStatus' = 0
    /\ pc' = "exited"
    /\ UNCHANGED <<argv, file, hasUnparse, exc, walk, result>>

\* json.dumps(result) raises before anything is written
SerializeFails ==
    /\ pc = "print"
    /\ exc' = "MemoryError"
    /\ pc' = "except"
    /\ UNCHANGED <<argv, file, hasUnparse, walk, result, stdout, exitStatus>>

\* the handler prints what the traversal had collected
HandleException_Partial ==
    /\ pc = "except"
    /\ stdout' = Append(stdout, [EmptyResult EXCEPT !.nodes = nodes, !.imports = imports])
    /\ exitStatus' = 0
    /\ pc' = "exited"
    /\ UNCHANGED <<argv, file, hasUnparse, exc, walk, result>>

\* the handler exits like the usage error does
HandleException_ExitOne ==
    /\ pc = "except"
    /\ stdout' = Append(stdout, EmptyResult)
    /\ exitStatus' = 1
    /\ pc' = "exited"
    /\ UNCHANGED <<argv, file, hasUnparse, exc, walk, result>>

\* except Exception: print the empty document; sys.exit(0)
HandleException ==
    /\ pc = "except"
    /\ stdout' = Append(stdout, EmptyResult)
    /\ exitStatus' = 0
    /\ pc' = "exited"
    /\ UNCHANGED <<argv, file, hasUnparse, exc, walk, result>>

Next ==
    \/ UsageError
    \/ ReadFile
    \/ ReadFileFails
    \/ Parse
    \/ ParseSyntaxError
    \/ ParseFails
    \/ visit_ClassDef
    \/ visit_FunctionDef
    \/ visit_AsyncFunctionDef
    \/ visit_Import
    \/ visit_ImportFrom
    \/ generic_visit
    \/ Return
    \/ VisitFails
    \/ extract_return
    \/ PrintResult
    \/ SerializeFails
    \/ HandleException

Spec == Init /\ [][Next]_vars

(***************************************************************************)
(* What the properties are stated in: the place of a statement in the      *)
(* file, read off the tree's parent links.                                 *)
(***************************************************************************)
NodeAt(line) == CHOOSE i \in 1..Len(tree) : tree[i].lineno = line

Above(i) == Ancestors(tree, i) \ {0}

InCallable(i) == \E a \in Above(i) : tree[a].kind \in CallableKinds

ClassesAbove(i) == {a \in Above(i) : tree[a].kind = "ClassDef"}

InnermostClass(i) == CHOOSE a \in ClassesAbove(i) : \A b \in ClassesAbove(i) : b <= a

IsCallableRecord(r) == r.type \in {"method", "function"}

\* every record the program holds or has printed
Printed == Flatten([k \in 1..Len(stdout) |-> stdout[k].nodes])
Records == nodes \o Printed \o Flatten([k \in 1..Len(result) |-> result[k].nodes])

\* extract has returned from a complete traversal
Completed == result # <<>> /\ file.parse = "ok"

\* C1: a callable record is a method whose parent is the innermost enclosing
\* class when the callable lies in a class, and a function without parent
\* otherwise; so a method has a parent and a function has none.
C1_MethodParent ==
    \A k \in 1..Len(Records) :
        LET r == Records[k]
            i == NodeAt(r.start_line)
        IN  IsCallableRecord(r) =>
              /\ IF ClassesAbove(i) # {}
                 THEN r.type = "method" /\ r.parent = tree[InnermostClass(i)].name
                 ELSE r.type = "function" /\ r.parent = ""
              /\ r.type = "method" => r.parent # ""
              /\ r.type = "function" => r.parent = ""

\* C1's case: a method recorded after a class nested in its own class.
C1_Witness ==
    \E k \in 1..Len(nodes) :
        /\ nodes[k].type = "method"
        /\ LET i == NodeAt(nodes[k].start_line)
           IN  \E j \in 1..(i - 1) :
                  /\ tree[j].kind = "ClassDef"
                  /\ InnermostClass(i) \in ClassesAbove(j)

\* The claim's weights: what one expression adds.
RECURSIVE BranchesOfExpr(_)
BranchesOfExpr(e) ==
    LET ch == ExprChildren(e)
        own == CASE e.kind = "BoolOp" -> Len(e.values) - 1
                 [] e.kind \in CompKinds -> Len(Flatten(e.generators))
                 [] OTHER -> 0
    IN  own + SumSeq([k \in 1..Len(ch) |-> BranchesOfExpr(ch[k])])

BranchesOfExprs(es) == SumSeq([k \in 1..Len(es) |-> BranchesOfExpr(es[k])])

BranchOfStmt(kind) ==
    CASE kind = "If" -> 1
      [] kind \in {"For", "While", "AsyncFor"} -> 1
      [] kind = "ExceptHandler" -> 1
      [] kind \in {"With", "AsyncWith"} -> 1
      [] OTHER -> 0

\* The branching constructs of statement i and all it contains.
RECURSIVE BranchesIn(_)
BranchesIn(i) ==
    LET ch == Children(tree, i)
    IN  BranchOfStmt(tree[i].kind) + BranchesOfExprs(OwnExprs(tree[i]))
        + SumSeq([k \in 1..Len(ch) |-> BranchesIn(ch[k])])

BranchesOfBody(i) ==
    LET body == InField(tree, i, "body")
    IN  SumSeq([k \in 1..Len(body) |-> BranchesIn(body[k])])

\* C2: the complexity of a callable record is 1 plus the weighted number of
\* branching constructs of the callable's body (here read at its widest: all
\* the body contains), hence at least 1, and 1 for a body without any.
C2_ComplexityOfBody ==
    \A k \in 1..Len(nodes) :
        IsCallableRecord(nodes[k]) =>
            LET i == NodeAt(nodes[k].start_line)
            IN  /\ nodes[k].cyclomatic_complexity = 1 + BranchesOfBody(i)
                /\ nodes[k].cyclomatic_complexity >= 1
                /\ BranchesOfBody(i) = 0 => nodes[k].cyclomatic_complexity = 1

\* The calculator's count for callable i when the bodies of the callables
\* nested in it are empty.
RECURSIVE CalcVisitOwn(_, _)
CalcVisitOwn(i, root) ==
    LET es == OwnExprs(tree[i])
        ch == IF i # root /\ tree[i].kind \in CallableKinds
              THEN <<>> ELSE Children(tree, i)
    IN  StmtIncrement(tree[i].kind)
        + SumSeq([k \in 1..Len(es) |-> CalcVisitExpr(es[k])])
        + SumSeq([k \in 1..Len(ch) |-> CalcVisitOwn(ch[k], root)])

\* C3: the complexity of a callable does not depend on the bodies of the
\* callables nested in it: it is what the calculator gives with those
\* bodies emptied.
C3_NestedBodiesNotCounted ==
    \A k \in 1..Len(nodes) :
        IsCallableRecord(nodes[k]) =>
            LET i == NodeAt(nodes[k].start_line)
            IN  nodes[k].cyclomatic_complexity = 1 + CalcVisitOwn(i, i)

\* The parameters a signature declares: the non-variadic ones, then *name,
\* then **name.
DeclaredParameters(args) ==
    LET plain == args.posonlyargs \o args.args \o args.kwonlyargs
    IN  [k \in 1..Len(plain) |->
            [name |-> plain[k].arg, type |-> AnnotationOf(plain[k].annotation, hasUnparse)]]
        \o [k \in 1..Len(args.vararg) |->
            [name |-> "*" \o args.vararg[k].arg,
             type |-> AnnotationOf(args.vararg[k].annotation, hasUnparse)]]
        \o [k \in 1..Len(args.kwarg) |->
            [name |-> "**" \o args.kwarg[k].arg,
             type |-> AnnotationOf(args.kwarg[k].annotation, hasUnparse)]]

\* C4: parameters holds every declared parameter once, the non-variadic
\* ones in declared order, then *name, then **name, and parameter_count is
\* its length.
C4_AllParameters ==
    \A k \in 1..Len(nodes) :
        IsCallableRecord(nodes[k]) =>
            LET i == NodeAt(nodes[k].start_line)
            IN  /\ nodes[k].parameters = DeclaredParameters(tree[i].args)
                /\ nodes[k].parameter_count = Len(nodes[k].parameters)

\* The declarations and imported names outside every callable body.
DeclKinds == {"ClassDef", "FunctionDef", "AsyncFunctionDef"}
OuterDecls == {i \in 1..Len(tree) : tree[i].kind \in DeclKinds /\ ~InCallable(i)}

ImportsOf(i) ==
    LET n == tree[i]
        rec(al, module) ==
            [module |-> module,
             name |-> IF al.asname = NoneStr THEN al.name ELSE al.asname,
             alias |-> IF al.asname = NoneStr THEN "" ELSE al.asname,
             line |-> n.lineno]
    IN  CASE n.kind = "Import" ->
               [k \in 1..Len(n.names) |-> rec(n.names[k], n.names[k].name)]
          [] n.kind = "ImportFrom" ->
               [k \in 1..Len(n.names) |->
                   rec(n.names[k],
                       IF n.module \in {NoneStr, ""} THEN n.names[k].name
                       ELSE n.module \o "." \o n.names[k].name)]
          [] OTHER -> <<>>

\* in statement order
RECURSIVE ImportsFrom(_)
ImportsFrom(i) ==
    IF i > Len(tree) THEN <<>>
    ELSE (IF InCallable(i) THEN <<>> ELSE ImportsOf(i)) \o ImportsFrom(i + 1)

ExpectedImports == ImportsFrom(1)

IsPrefix(s, t) == Len(s) <= Len(t) /\ s = SubSeq(t, 1, Len(s))

IsEmptyDoc(d) == d.nodes = <<>> /\ d.imports = <<>> /\ d.relationships = <<>>

IsCompleteDoc(d) ==
    /\ file.parse = "ok"
    /\ Len(d.nodes) = Cardinality(OuterDecls)
    /\ Len(d.imports) = Len(ExpectedImports)
    /\ d.relationships = <<>>

\* C5: a run that has ended, whichever way, has written exactly one
\* document, and a run that has not ended has written none yet; the document
\* is the complete result or has no nodes, imports or relationships.
C5_OneDocument ==
    /\ pc = "exited" => Len(stdout) = 1
    /\ pc # "exited" => stdout = <<>>
    /\ \A k \in 1..Len(stdout) : IsCompleteDoc(stdout[k]) \/ IsEmptyDoc(stdout[k])

\* C5's case: the traversal failed after it had collected records.
C5_Witness ==
    /\ pc = "exited"
    /\ exc = "RecursionError"
    /\ nodes # <<>>
    /\ stdout = <<EmptyResult>>

\* C6: the exit status is 1 exactly when the argument count is not one, and
\* then the all-empty document with module "" was printed; every other run
\* ends with status 0.
C6_ExitStatus ==
    /\ pc = "exited" =>
          /\ exitStatus \in {0, 1}
          /\ exitStatus = 1 <=> Len(argv) # 2
          /\ Len(argv) # 2 => stdout = <<EmptyResult>>
    /\ pc # "exited" => exitStatus = -1

\* C6's case: a run on a file that cannot be parsed has ended.
C6_Witness ==
    /\ pc = "exited"
    /\ exc \in {"SyntaxError", "ValueError", "RecursionError"}
    /\ exitStatus = 0

\* m is the base name of path p (what follows its last separator) without
\* its extension (the last dot and what follows it, unless only dots precede).
IsStem(m, p) ==
    \E i \in 0..Len(p) :
        /\ i = 0 \/ p[i] = "/"
        /\ \A j \in (i + 1)..Len(p) : p[j] # "/"
        /\ LET base == SubSeq(p, i + 1, Len(p))
               ext == SubSeq(base, Len(m) + 1, Len(base))
           IN  /\ IsPrefix(m, base)
               /\ IF \E d \in 2..Len(base) :
                        base[d] = "." /\ \E c \in 1..(d - 1) : base[c] # "."
                  THEN /\ ext # <<>>
                       /\ ext[1] = "."
                       /\ \A c \in 2..Len(ext) : ext[c] # "."
                  ELSE ext = <<>>

\* C7 as stated: when the file was read, the printed module is the stem of
\* the path whatever the outcome, and a failure prints no nodes, imports or
\* relationships.
C7_ModuleAlways ==
    pc = "exited" /\ Len(argv) = 2 /\ file.readable =>
        /\ IsStem(stdout[1].module, file_path)
        /\ exc # NoneStr => IsEmptyDoc(stdout[1])

\* C7 amended: the printed module is the stem of the path when the run
\* succeeds or the file has a syntax error and extract's result is printed;
\* it is "" when any other exception reached main's handler; every failure
\* prints no nodes, imports or relationships.
C7_ModuleUnlessHandled ==
    pc = "exited" /\ Len(argv) = 2 =>
        /\ exc \in {NoneStr, "SyntaxError"} => IsStem(stdout[1].module, file_path)
        /\ exc \notin {NoneStr, "SyntaxError"} => stdout[1].module = <<>>
        /\ exc # NoneStr => IsEmptyDoc(stdout[1])

\* C7's case: a file with a syntax error under a path with an extension.
C7_Witness ==
    /\ pc = "exited"
    /\ exc = "SyntaxError"
    /\ stdout[1].module # <<>>
    /\ stdout[1].module # basename(file_path)

\* C8: imports holds one record per imported name of the import statements
\* outside callable bodies, in statement order and then name order, each
\* with the module, name, alias and line the statement gives it.
C8_Imports ==
    /\ IsPrefix(imports, ExpectedImports)
    /\ Completed => result[1].imports = ExpectedImports
    /\ pc = "exited" /\ exc = NoneStr /\ Len(argv) = 2 =>
          stdout[1].imports = ExpectedImports

\* C8's case: a from-import of two names and an import without module path
\* have been printed.
C8_Witness ==
    /\ pc = "exited"
    /\ exc = NoneStr
    /\ Len(argv) = 2
    /\ \E k \in 1..(Len(stdout[1].imports) - 1) :
          /\ stdout[1].imports[k].module = "typing.Optional"
          /\ stdout[1].imports[k + 1].module = "typing.Dict"
    /\ \E k \in 1..Len(stdout[1].imports) :
          /\ stdout[1].imports[k].module = "x"
          /\ stdout[1].imports[k].alias = "y"

ClassRecordsOf(d, i) ==
    {k \in 1..Len(d.nodes) :
        d.nodes[k].type = "class" /\ d.nodes[k].start_line = tree[i].lineno}

HasClassRecord(d, i) ==
    /\ Cardinality(ClassRecordsOf(d, i)) = 1
    /\ \A k \in ClassRecordsOf(d, i) :
          /\ d.nodes[k].name = tree[i].name
          /\ d.nodes[k].base_classes =
                [b \in 1..Len(tree[i].bases) |->
                    _get_name_from_node(tree[i].bases[b], hasUnparse)]
          /\ d.nodes[k].decorators =
                [b \in 1..Len(tree[i].decorator_list) |->
                    _get_name_from_node(tree[i].decorator_list[b], hasUnparse)]
          /\ \A m \in 1..Len(d.nodes) :
                i \in Above(NodeAt(d.nodes[m].start_line)) => k < m

\* C9 as stated: every class of a parsed file, wherever it is, has exactly
\* one class record, with its name, bases and decorators, before the
\* records of its members.
C9_EveryClass ==
    Completed =>
        \A i \in 1..Len(tree) : tree[i].kind = "ClassDef" => HasClassRecord(result[1], i)

\* C9 amended: every class of a parsed file that is not inside a callable
\* body has exactly one class record, with its name, bases and decorators,
\* before the records of its members.
C9_EveryOuterClass ==
    Completed =>
        \A i \in 1..Len(tree) :
            tree[i].kind = "ClassDef" /\ ~InCallable(i) => HasClassRecord(result[1], i)

\* C9's case: a class nested in a class, both recorded, and a class with
\* base classes and a method.
C9_Witness ==
    /\ Completed
    /\ \E i \in 1..Len(tree) :
          /\ tree[i].kind = "ClassDef"
          /\ ~InCallable(i)
          /\ \/ ClassesAbove(i) # {}
             \/ tree[i].bases # <<>> /\ Children(tree, i) # <<>>

\* C10: no record and no import comes from inside a callable body.
C10_NothingFromCallableBodies ==
    /\ \A k \in 1..Len(Records) : ~InCallable(NodeAt(Records[k].start_line))
    /\ \A k \in 1..Len(imports) : ~InCallable(NodeAt(imports[k].line))
    /\ \A d \in 1..Len(stdout) : \A k \in 1..Len(stdout[d].imports) :
          ~InCallable(NodeAt(stdout[d].imports[k].line))

\* C10's case: the traversal has completed on a file with a declaration
\* nested two levels deep in a callable body.
C10_Witness ==
    /\ Completed
    /\ \E i \in 1..Len(tree) :
          /\ tree[i].kind \in DeclKinds \cup {"Import"}
          /\ InCallable(i)
          /\ Cardinality(Above(i)) >= 2

====
